---- MODULE Spec2Model ----
(***************************************************************************)
(* GraphQLProject (apollo-language-server, src/project/base.ts): the       *)
(* document index, the readiness gate and the setTimeout-coalesced         *)
(* validation scheduler, as a state machine.  One action per method call,  *)
(* promise continuation or timer turn; a call that the code runs           *)
(* synchronously (including everything it calls) is one atomic step.       *)
(***************************************************************************)
EXTENDS Integers, Sequences, FiniteSets, TLC

\* ------------------------------------------------------------------ bounds
NumSubtasks == 2      \* promises returned by initialize()
MaxDocs == 2          \* most documents one text yields
MaxValidations == 2   \* the environment stops issuing calls after this many passes
MaxTimers == 2        \* the environment stops issuing calls at this many queued timers
MaxBurst == 2         \* the count of coalesced invalidate() calls saturates here

\* ------------------------------------------------------- files, paths, URIs
\* A file path is <<stem, extension>>; its URI is the path under the "file"
\* scheme.
Paths == { <<"a", ".graphql">>, <<"b", ".ts">>, <<"c", ".txt">> }

UriFile(filePath) == <<"file">> \o filePath

fsPath(uri) == Tail(uri)

extname(filePath) == filePath[Len(filePath)]

URIs == { UriFile(p) : p \in Paths }

Undefined == "undefined"

fileAssociations ==
    [ extension \in {".graphql", ".js", ".ts", ".jsx", ".tsx"} |->
        CASE extension = ".graphql" -> "graphql"
          [] extension = ".js" -> "javascript"
          [] extension = ".ts" -> "typescript"
          [] extension = ".jsx" -> "javascriptreact"
          [] extension = ".tsx" -> "typescriptreact" ]

languageIdOf(extension) ==
    IF extension \in DOMAIN fileAssociations THEN fileAssociations[extension] ELSE Undefined

\* ------------------------------------------------ texts and the extractor
\* A text is identified by what the Document Extractor yields for it:
\* text 0 yields none (null), text k+1 yields the documents <<1, ..., k>>,
\* so text 1 yields the empty sequence.
Texts == 0 .. (MaxDocs + 1)

None == [some |-> FALSE, docs |-> << >>]

Some(docs) == [some |-> TRUE, docs |-> docs]

extractGraphQLDocuments(document) ==
    IF document.text = 0 THEN None
    ELSE Some([i \in 1 .. (document.text - 1) |-> i])

\* JavaScript truthiness of `GraphQLDocument[] | null`: only null is falsy,
\* an empty array is truthy.
Truthy(documents) == documents.some

TextDocumentCreate(uri, languageId, version, text) ==
    [uri |-> uri, languageId |-> languageId, version |-> version, text |-> text]

\* readFileSync either throws or returns the file's contents.
ReadFailure == [ok |-> FALSE, contents |-> 0]

ReadSuccess(text) == [ok |-> TRUE, contents |-> text]

ReadResults == {ReadFailure} \cup {ReadSuccess(t) : t \in Texts}

\* ------------------------------------------------------------ the Map
Absent == [has |-> FALSE, docs |-> << >>]

Entry(docs) == [has |-> TRUE, docs |-> docs]

EmptyMap == [u \in URIs |-> Absent]

Keys(map) == {u \in URIs : map[u].has}

\* ------------------------------------------------------------- handlers
NoHandler == "none"

Handlers == {"h1", "h2"}

\* ------------------------------------------- what a step did (observation)
NoUri == <<"none", "", "">>

\* kind: "setTimeout", "publish" (an empty diagnostic set for uri, to handler),
\* "validate" (the hook is invoked; index is the Document Index it finds and
\* served the number of invalidate() calls the pass answers), "throw" (the
\* hook throws), "showError".
Eff(kind) ==
    [kind |-> kind, handler |-> NoHandler, uri |-> NoUri, index |-> EmptyMap, served |-> 0]

PublishEff(handler, uri) ==
    [kind |-> "publish", handler |-> handler, uri |-> uri, index |-> EmptyMap, served |-> 0]

ValidateEff(index, served) ==
    [kind |-> "validate", handler |-> NoHandler, uri |-> NoUri, index |-> index,
     served |-> served]

VARIABLES
    isReadyField,      \* _isReady
    needsValidation,   \* needsValidation
    documentsByFile,   \* documentsByFile
    onDiagnosticsField,\* _onDiagnostics
    subtasks,          \* the promises of initialize(): pending / resolved / rejected
    readyPromise,      \* readyPromise: pending / fulfilled / rejected
    timers,            \* setTimeout callbacks queued and not yet run
    validateCount,     \* validate() invocations so far
    showErrorCount,    \* loadingHandler.showError calls so far
    effects,           \* what the last step emitted, in order
    burst,             \* invalidate() calls since needsValidation was last cleared
    lastEvent          \* per file, what its last change/delete event carried: the
                       \* extractor's result for a change, None for a delete and
                       \* before any event

vars == <<isReadyField, needsValidation, documentsByFile, onDiagnosticsField, subtasks,
          readyPromise, timers, validateCount, showErrorCount, effects, burst, lastEvent>>

\* The project's state as one record, threaded through a call and everything
\* it calls; `out` collects what the call emits and `threw` whether an
\* exception is propagating out of it.
Cur ==
    [isReadyField |-> isReadyField, needsValidation |-> needsValidation,
     documentsByFile |-> documentsByFile, onDiagnosticsField |-> onDiagnosticsField,
     timers |-> timers, validateCount |-> validateCount,
     showErrorCount |-> showErrorCount, lastEvent |-> lastEvent, burst |-> burst,
     out |-> << >>, threw |-> FALSE]

Apply(p) ==
    /\ isReadyField' = p.isReadyField
    /\ needsValidation' = p.needsValidation
    /\ documentsByFile' = p.documentsByFile
    /\ onDiagnosticsField' = p.onDiagnosticsField
    /\ timers' = p.timers
    /\ validateCount' = p.validateCount
    /\ showErrorCount' = p.showErrorCount
    /\ lastEvent' = p.lastEvent
    /\ burst' = p.burst
    /\ effects' = p.out

\* ------------------------------------------------------------- methods
\* Mutant of isReady: the getter answers true before initialization is done.
isReadyAlways(p) == TRUE

isReady(p) == p.isReadyField

Counted(p) == [p EXCEPT !.burst = IF @ < MaxBurst THEN @ + 1 ELSE @]

\* Mutant of invalidate: a timer is queued although one is already pending.
invalidateNoCoalesce(p) ==
    IF isReady(p)
    THEN [Counted(p) EXCEPT !.timers = @ + 1,
                            !.out = Append(@, Eff("setTimeout")),
                            !.needsValidation = TRUE]
    ELSE Counted(p)

\* Mutant of invalidate: the pending flag is set but no timer is queued.
invalidateWithoutTimer(p) ==
    IF ~p.needsValidation /\ isReady(p)
    THEN [Counted(p) EXCEPT !.needsValidation = TRUE]
    ELSE Counted(p)

\* Mutant of invalidate: a timer is queued but the pending flag is not set.
invalidateWithoutFlag(p) ==
    IF ~p.needsValidation /\ isReady(p)
    THEN [Counted(p) EXCEPT !.timers = @ + 1,
                            !.out = Append(@, Eff("setTimeout"))]
    ELSE Counted(p)

\* Mutant of invalidate: before readiness the call sets the pending flag.
invalidateSetsFlagBeforeReady(p) ==
    IF ~p.needsValidation /\ isReady(p)
    THEN [Counted(p) EXCEPT !.timers = @ + 1,
                            !.out = Append(@, Eff("setTimeout")),
                            !.needsValidation = TRUE]
    ELSE [Counted(p) EXCEPT !.needsValidation = TRUE]

invalidate(p) ==
    IF ~p.needsValidation /\ isReady(p)
    THEN [Counted(p) EXCEPT !.timers = @ + 1,
                            !.out = Append(@, Eff("setTimeout")),
                            !.needsValidation = TRUE]
    ELSE Counted(p)

\* Mutant of removeGraphQLDocumentsFor: the has() test is missing.
removeWithoutHasTest(p, uri) ==
    LET deleted == [p EXCEPT !.documentsByFile[uri] = Absent]
        notified == IF deleted.onDiagnosticsField # NoHandler
                    THEN [deleted EXCEPT
                            !.out = Append(@, PublishEff(deleted.onDiagnosticsField, uri))]
                    ELSE deleted
    IN invalidate(notified)

\* Mutant of removeGraphQLDocumentsFor: the revalidation is requested before
\* the empty diagnostics are published.
removeInvalidatesBeforePublishing(p, uri) ==
    IF p.documentsByFile[uri].has
    THEN LET deleted == invalidate([p EXCEPT !.documentsByFile[uri] = Absent])
         IN IF deleted.onDiagnosticsField # NoHandler
            THEN [deleted EXCEPT
                    !.out = Append(@, PublishEff(deleted.onDiagnosticsField, uri))]
            ELSE deleted
    ELSE p

removeGraphQLDocumentsFor(p, uri) ==
    IF p.documentsByFile[uri].has
    THEN LET deleted == [p EXCEPT !.documentsByFile[uri] = Absent]
             notified == IF deleted.onDiagnosticsField # NoHandler
                         THEN [deleted EXCEPT
                                 !.out = Append(@, PublishEff(deleted.onDiagnosticsField, uri))]
                         ELSE deleted
         IN invalidate(notified)
    ELSE p

fileWasDeleted(p, uri) ==
    removeGraphQLDocumentsFor([p EXCEPT !.lastEvent[uri] = None], uri)

documentDidChange(p, document) ==
    LET documents == extractGraphQLDocuments(document)
        q == [p EXCEPT !.lastEvent[document.uri] = documents]
    IN IF Truthy(documents)
       THEN invalidate([q EXCEPT !.documentsByFile[document.uri] = Entry(documents.docs)])
       ELSE removeGraphQLDocumentsFor(q, document.uri)

\* Mutant of fileDidChange: a failed read is taken for an empty file.
fileDidChangeReadsEmptyOnFailure(p, uri, read) ==
    LET filePath == fsPath(uri)
        extension == extname(filePath)
        languageId == languageIdOf(extension)
    IN IF languageId = Undefined THEN p
       ELSE documentDidChange(p, TextDocumentCreate(uri, languageId, -1, read.contents))

fileDidChange(p, uri, read) ==
    LET filePath == fsPath(uri)
        extension == extname(filePath)
        languageId == languageIdOf(extension)
    IN IF languageId = Undefined THEN p
       ELSE IF read.ok
            THEN documentDidChange(p, TextDocumentCreate(uri, languageId, -1, read.contents))
            ELSE p

\* Mutant of scanAllIncludedFiles: the has() test is missing, so every
\* enumerated file is handed to fileDidChange.
RECURSIVE scanEveryFile(_, _, _)
scanEveryFile(p, allFiles, disk) ==
    IF allFiles = << >> THEN p
    ELSE LET filePath == Head(allFiles)
         IN scanEveryFile(fileDidChange(p, UriFile(filePath), disk[filePath]),
                          Tail(allFiles), disk)

\* The loop of scanAllIncludedFiles over fileSet.allFiles(); disk[filePath]
\* is what readFileSync gives for the file when the loop reaches it.
RECURSIVE scanLoop(_, _, _)
scanLoop(p, allFiles, disk) ==
    IF allFiles = << >> THEN p
    ELSE LET filePath == Head(allFiles)
             uri == UriFile(filePath)
         IN IF p.documentsByFile[uri].has
            THEN scanLoop(p, Tail(allFiles), disk)
            ELSE scanLoop(fileDidChange(p, uri, disk[filePath]), Tail(allFiles), disk)

scanAllIncludedFiles(p, allFiles, disk) == scanLoop(p, allFiles, disk)

\* The abstract validate() hook: it returns, throws, or calls back into the
\* project (a change or a delete) before returning.
HookBehaviours ==
    {[kind |-> "ok", uri |-> NoUri, text |-> 0], [kind |-> "throw", uri |-> NoUri, text |-> 0]}
      \cup {[kind |-> "change", uri |-> u, text |-> t] : u \in URIs, t \in Texts}
      \cup {[kind |-> "delete", uri |-> u, text |-> 0] : u \in URIs}

validate(p, hook) ==
    LET q == [p EXCEPT !.validateCount = @ + 1,
                       !.out = Append(@, ValidateEff(p.documentsByFile, p.burst))]
    IN CASE hook.kind = "ok" -> q
         [] hook.kind = "throw" -> [q EXCEPT !.threw = TRUE, !.out = Append(@, Eff("throw"))]
         [] hook.kind = "change" ->
              documentDidChange(q, TextDocumentCreate(hook.uri, "graphql", 0, hook.text))
         [] hook.kind = "delete" -> fileWasDeleted(q, hook.uri)

\* Mutant of validateIfNeeded: the pending flag is cleared before validate()
\* is called.
validateIfNeededClearsFlagFirst(p, hook) ==
    IF ~p.needsValidation \/ ~isReady(p) THEN p
    ELSE validate([p EXCEPT !.needsValidation = FALSE, !.burst = 0], hook)

validateIfNeeded(p, hook) ==
    IF ~p.needsValidation \/ ~isReady(p) THEN p
    ELSE LET q == validate(p, hook)
         IN IF q.threw THEN q ELSE [q EXCEPT !.needsValidation = FALSE, !.burst = 0]

\* Mutant of onDiagnostics: the first registration wins.
onDiagnosticsKeepsFirst(p, handler) ==
    IF p.onDiagnosticsField = NoHandler THEN [p EXCEPT !.onDiagnosticsField = handler] ELSE p

onDiagnostics(p, handler) == [p EXCEPT !.onDiagnosticsField = handler]

\* clearAllDiagnostics; keys is documentsByFile.keys() in the Map's iteration
\* order.
RECURSIVE clearLoop(_, _)
clearLoop(p, keys) ==
    IF keys = << >> THEN p
    ELSE clearLoop([p EXCEPT !.out = Append(@, PublishEff(p.onDiagnosticsField, Head(keys)))],
                   Tail(keys))

\* Mutant of clearAllDiagnostics: it requests a revalidation when done.
clearAllAndInvalidate(p, keys) ==
    IF p.onDiagnosticsField = NoHandler THEN p ELSE invalidate(clearLoop(p, keys))

clearAllDiagnostics(p, keys) ==
    IF p.onDiagnosticsField = NoHandler THEN p ELSE clearLoop(p, keys)

\* --------------------------------------------------------------- queries
\* Positions in a file.  The document numbered d occupies positions d and
\* d + 1, so that neighbouring documents share a position and some positions
\* are in no document.
Positions == 0 .. (MaxDocs + 2)

containsPosition(document, position) == position \in document .. (document + 1)

\* What find() and documentAt give when there is no document.
NoDocument == 0

\* Array.prototype.find: the first element that satisfies the test.
RECURSIVE find(_, _)
find(queryDocuments, position) ==
    IF queryDocuments = << >> THEN NoDocument
    ELSE IF containsPosition(Head(queryDocuments), position) THEN Head(queryDocuments)
    ELSE find(Tail(queryDocuments), position)

documentsAt(p, uri) == p.documentsByFile[uri]

\* Mutant of documentAt: the last document that contains the position.
RECURSIVE findLast(_, _)
findLast(queryDocuments, position) ==
    IF queryDocuments = << >> THEN NoDocument
    ELSE LET later == findLast(Tail(queryDocuments), position)
         IN IF later # NoDocument THEN later
            ELSE IF containsPosition(Head(queryDocuments), position)
                 THEN Head(queryDocuments)
                 ELSE NoDocument

documentAtLastMatch(p, uri, position) ==
    LET queryDocuments == documentsAt(p, uri)
    IN IF ~queryDocuments.has THEN NoDocument
       ELSE findLast(queryDocuments.docs, position)

documentAt(p, uri, position) ==
    LET queryDocuments == documentsAt(p, uri)
    IN IF ~queryDocuments.has THEN NoDocument
       ELSE find(queryDocuments.docs, position)

\* ------------------------------------------- the constructor's promise chain
\* Promise.all: rejected as soon as one input is rejected, fulfilled when all
\* are fulfilled.
\* Mutant of PromiseAll: it waits for every input to settle and then fulfils.
PromiseAllSettled(promises) ==
    IF \A i \in DOMAIN promises : promises[i] # "pending" THEN "fulfilled" ELSE "pending"

PromiseAll(promises) ==
    IF \E i \in DOMAIN promises : promises[i] = "rejected" THEN "rejected"
    ELSE IF \A i \in DOMAIN promises : promises[i] = "resolved" THEN "fulfilled"
    ELSE "pending"

\* Mutant of readyThen: readiness is set without requesting a revalidation.
readyThenNoInvalidate(p) == [p EXCEPT !.isReadyField = TRUE]

readyThen(p) == invalidate([p EXCEPT !.isReadyField = TRUE])

readyCatch(p) ==
    [p EXCEPT !.showErrorCount = @ + 1, !.out = Append(@, Eff("showError"))]

\* ---------------------------------------------------------------- Init
Init ==
    /\ isReadyField = FALSE
    /\ needsValidation = FALSE
    /\ documentsByFile = EmptyMap
    /\ onDiagnosticsField = NoHandler
    /\ subtasks = [i \in 1 .. NumSubtasks |-> "pending"]
    /\ readyPromise = "pending"
    /\ timers = 0
    /\ validateCount = 0
    /\ showErrorCount = 0
    /\ effects = << >>
    /\ burst = 0
    /\ lastEvent = [u \in URIs |-> None]

\* -------------------------------------------------------------- actions
\* The environment keeps calling while the observation counters are in bounds.
CanCall == validateCount < MaxValidations /\ timers < MaxTimers

SubtaskResolves(i) ==
    /\ subtasks[i] = "pending"
    /\ subtasks' = [subtasks EXCEPT ![i] = "resolved"]
    /\ effects' = << >>
    /\ UNCHANGED <<isReadyField, needsValidation, documentsByFile, onDiagnosticsField,
                   readyPromise, timers, validateCount, showErrorCount, burst, lastEvent>>

SubtaskRejects(i) ==
    /\ subtasks[i] = "pending"
    /\ subtasks' = [subtasks EXCEPT ![i] = "rejected"]
    /\ effects' = << >>
    /\ UNCHANGED <<isReadyField, needsValidation, documentsByFile, onDiagnosticsField,
                   readyPromise, timers, validateCount, showErrorCount, burst, lastEvent>>

ReadyThen ==
    /\ readyPromise = "pending"
    /\ PromiseAll(subtasks) = "fulfilled"
    /\ Apply(readyThen(Cur))
    /\ readyPromise' = "fulfilled"
    /\ UNCHANGED subtasks

ReadyCatch ==
    /\ readyPromise = "pending"
    /\ PromiseAll(subtasks) = "rejected"
    /\ Apply(readyCatch(Cur))
    /\ readyPromise' = "fulfilled"
    /\ UNCHANGED subtasks

CallFileDidChange(uri, read) ==
    /\ CanCall
    /\ Apply(fileDidChange(Cur, uri, read))
    /\ UNCHANGED <<subtasks, readyPromise>>

CallDocumentDidChange(document) ==
    /\ CanCall
    /\ Apply(documentDidChange(Cur, document))
    /\ UNCHANGED <<subtasks, readyPromise>>

CallFileWasDeleted(uri) ==
    /\ CanCall
    /\ Apply(fileWasDeleted(Cur, uri))
    /\ UNCHANGED <<subtasks, readyPromise>>

CallScanAllIncludedFiles(allFiles, disk) ==
    /\ CanCall
    /\ Apply(scanAllIncludedFiles(Cur, allFiles, disk))
    /\ UNCHANGED <<subtasks, readyPromise>>

CallInvalidate ==
    /\ CanCall
    /\ Apply(invalidate(Cur))
    /\ UNCHANGED <<subtasks, readyPromise>>

CallOnDiagnostics(handler) ==
    /\ CanCall
    /\ Apply(onDiagnostics(Cur, handler))
    /\ UNCHANGED <<subtasks, readyPromise>>

\* documentsByFile.keys(): the Map iterates in insertion order, which the
\* index does not record, so any order of its keys.
KeyOrders(map) ==
    { s \in [1 .. Cardinality(Keys(map)) -> Keys(map)] :
        \A i, j \in DOMAIN s : i # j => s[i] # s[j] }

CallClearAllDiagnostics(keys) ==
    /\ CanCall
    /\ Apply(clearAllDiagnostics(Cur, keys))
    /\ UNCHANGED <<subtasks, readyPromise>>

TimerTurn(hook) ==
    /\ timers > 0
    /\ Apply(validateIfNeeded([Cur EXCEPT !.timers = @ - 1], hook))
    /\ UNCHANGED <<subtasks, readyPromise>>

\* The documents an editor hands over: any file, any text.
EditorDocuments ==
    { TextDocumentCreate(u, languageIdOf(extname(fsPath(u))), 1, t) : u \in URIs, t \in Texts }

\* fileSet.allFiles(): every path in scope, in one enumeration order or in
\* the opposite one.
Reverse(s) == [i \in 1 .. Len(s) |-> s[Len(s) + 1 - i]]

AllFiles == << <<"a", ".graphql">>, <<"c", ".txt">>, <<"b", ".ts">> >>

Enumerations == {AllFiles, Reverse(AllFiles)}

\* The key orders clearAllDiagnostics is run with: the files were inserted in
\* one enumeration order or in the opposite one.
InsertionOrders(map) ==
    { SelectSeq([i \in DOMAIN allFiles |-> UriFile(allFiles[i])], LAMBDA uri : map[uri].has) :
        allFiles \in Enumerations }

\* What readFileSync gives for each path during one scan.  fileDidChange
\* returns before reading a path whose extension is unsupported, so those
\* paths are fixed to a failing read.
Readable == { p \in Paths : languageIdOf(extname(p)) # Undefined }

Disks ==
    { [p \in Paths |-> IF p \in Readable THEN d[p] ELSE ReadFailure] :
        d \in [Readable -> ReadResults] }

\* The disks a scan is run against.  The scan reads only the readable paths
\* that have no entry in the index; what the disk holds for the others is
\* fixed to a failing read.
ScanReads(index) == { p \in Readable : ~index[UriFile(p)].has }

ScanDisks(index) ==
    { disk \in Disks : \A p \in Readable \ ScanReads(index) : disk[p] = ReadFailure }

Next ==
    \/ \E i \in 1 .. NumSubtasks : SubtaskResolves(i)
    \/ \E i \in 1 .. NumSubtasks : SubtaskRejects(i)
    \/ ReadyThen
    \/ ReadyCatch
    \/ \E uri \in URIs, read \in ReadResults : CallFileDidChange(uri, read)
    \/ \E document \in EditorDocuments : CallDocumentDidChange(document)
    \/ \E uri \in URIs : CallFileWasDeleted(uri)
    \/ \E allFiles \in Enumerations, disk \in ScanDisks(documentsByFile) :
          CallScanAllIncludedFiles(allFiles, disk)
    \/ CallInvalidate
    \/ \E handler \in Handlers : CallOnDiagnostics(handler)
    \/ \E keys \in InsertionOrders(documentsByFile) : CallClearAllDiagnostics(keys)
    \/ \E hook \in HookBehaviours : TimerTurn(hook)

Spec == Init /\ [][Next]_vars

\* The validate() hook completes normally: it returns, possibly after calling
\* back into the project.
NormalHooks == { hook \in HookBehaviours : hook.kind # "throw" }

NormalTimerTurn == \E hook \in NormalHooks : TimerTurn(hook)

NextNormal ==
    \/ \E i \in 1 .. NumSubtasks : SubtaskResolves(i)
    \/ \E i \in 1 .. NumSubtasks : SubtaskRejects(i)
    \/ ReadyThen
    \/ ReadyCatch
    \/ \E uri \in URIs, read \in ReadResults : CallFileDidChange(uri, read)
    \/ \E document \in EditorDocuments : CallDocumentDidChange(document)
    \/ \E uri \in URIs : CallFileWasDeleted(uri)
    \/ \E allFiles \in Enumerations, disk \in ScanDisks(documentsByFile) :
          CallScanAllIncludedFiles(allFiles, disk)
    \/ CallInvalidate
    \/ \E handler \in Handlers : CallOnDiagnostics(handler)
    \/ \E keys \in InsertionOrders(documentsByFile) : CallClearAllDiagnostics(keys)
    \/ NormalTimerTurn

\* A callback queued with setTimeout(..., 0) is run by the event loop: the
\* timer turn is taken whenever one is outstanding.
FairSpec == Init /\ [][NextNormal]_vars /\ WF_vars(NormalTimerTurn)

\* ------------------------------------------------------- kinds of step
\* The step being taken is a call that stores documents, removes an indexed
\* file, or is invalidate() itself.
InvalidatingCall ==
    \/ \E document \in EditorDocuments :
          /\ Truthy(extractGraphQLDocuments(document)) \/ documentsByFile[document.uri].has
          /\ CallDocumentDidChange(document)
    \/ \E uri \in URIs, read \in ReadResults :
          /\ languageIdOf(extname(fsPath(uri))) # Undefined
          /\ read.ok
          /\ Truthy(extractGraphQLDocuments([text |-> read.contents]))
                \/ documentsByFile[uri].has
          /\ CallFileDidChange(uri, read)
    \/ \E uri \in URIs : documentsByFile[uri].has /\ CallFileWasDeleted(uri)
    \/ /\ documentsByFile' # documentsByFile
       /\ \E allFiles \in Enumerations, disk \in ScanDisks(documentsByFile) :
            CallScanAllIncludedFiles(allFiles, disk)
    \/ CallInvalidate

TimerTurnStep == \E hook \in HookBehaviours : TimerTurn(hook)

\* ---------------------------------------------------------------- C1
\* C1: whatever the interleaving of init-subtask completions, calls and
\* timer turns, a step that invokes validate() starts from a state in which
\* isReady is true: validate() is never invoked while isReady is false.
C1_ValidateOnlyWhenReady == [][validateCount' # validateCount => isReadyField]_vars

\* A validation pass has run over a non-empty index.
C1_Witness ==
    /\ validateCount > 0
    /\ Keys(documentsByFile) # {}

\* ---------------------------------------------------------------- C2
\* C2: with the project ready and no validation pending, an invalidating
\* call queues exactly one timer and runs no validation itself; while that
\* timer is queued, every step is either a call that leaves the one timer
\* queued and runs no validation, or the timer turn, which invokes validate()
\* exactly once and leaves no timer queued.  A burst of N >= 1 calls so gets
\* one validate() invocation, on a later turn.
C2_Queued == needsValidation' /\ timers' = 1 /\ validateCount' = validateCount

C2_OneDeferredValidationPerBurst ==
    /\ [][(isReadyField /\ ~needsValidation) => (C2_Queued \/ ~InvalidatingCall)]_vars
    /\ [][(needsValidation /\ timers = 1)
            => \/ C2_Queued
               \/ /\ validateCount' = validateCount + 1
                  /\ timers' = 0
                  /\ TimerTurnStep]_vars

\* After a first pass, a validation pass has just answered a burst of at
\* least two invalidate() calls.
C2_Witness ==
    /\ validateCount = 2
    /\ timers = 0
    /\ effects # << >>
    /\ effects[1].kind = "validate"
    /\ effects[1].served >= 2

\* ---------------------------------------------------------------- C3
\* C3: no validate() invocation happens before every init subtask has
\* resolved; from readiness until the first pass exactly one timer is queued,
\* whatever calls arrived during initialization, and every step either leaves
\* it queued without validating or is the timer turn, which invokes
\* validate() once, queues nothing further, and finds an index that holds,
\* for every file, the documents its last change stored.
C3_FirstPassSeesLastEvents ==
    \A u \in URIs :
        (lastEvent[u].some /\ lastEvent[u].docs # << >>)
            => effects'[1].index[u] = Entry(lastEvent[u].docs)

C3_OneValidationAfterInit ==
    /\ [](validateCount > 0 => \A i \in 1 .. NumSubtasks : subtasks[i] = "resolved")
    /\ []((isReadyField /\ validateCount = 0) => (needsValidation /\ timers = 1))
    /\ [][(isReadyField /\ validateCount = 0)
            => \/ needsValidation' /\ timers' = 1 /\ validateCount' = 0
               \/ /\ validateCount' = 1
                  /\ timers' = 0
                  /\ effects'[1].kind = "validate"
                  /\ C3_FirstPassSeesLastEvents
                  /\ TimerTurnStep]_vars

\* The first pass has run, it answered the constructor's request and at
\* least one more, and it found documents in the index.
C3_Witness ==
    /\ validateCount = 1
    /\ timers = 0
    /\ effects # << >>
    /\ effects[1].kind = "validate"
    /\ effects[1].served >= 2
    /\ Keys(effects[1].index) # {}

\* ---------------------------------------------------------------- C4
\* C4: after a timer turn in which the validate() hook threw, the
\* pending-validation flag is cleared (so that a later call can queue a new
\* pass).
C4_FlagClearedAfterHookFailure ==
    (\E i \in DOMAIN effects : effects[i].kind = "throw") => ~needsValidation

\* ---------------------------------------------------------------- C5
\* C5: every key of documentsByFile maps to a non-empty sequence of
\* documents, whatever the extractor yielded (none or an empty sequence
\* removes the key).
C5_NoEmptyEntries ==
    \A u \in URIs : documentsByFile[u].has => documentsByFile[u].docs # << >>

\* ---------------------------------------------------------------- C6
\* C6: the index is what the last event per file alone gives: a file whose
\* last event was a change yielding documents maps to exactly those
\* documents; a file whose last event was a delete or a change yielding
\* nothing (none, or no documents), or that had no event, has no entry.
C6_LastWriteWins ==
    \A u \in URIs :
        IF lastEvent[u].some /\ lastEvent[u].docs # << >>
        THEN documentsByFile[u] = Entry(lastEvent[u].docs)
        ELSE ~documentsByFile[u].has

\* ---------------------------------------------------------------- C7
\* C7: a fileWasDeleted call for a file with no entry in the index changes
\* neither the index, nor the pending flag, nor the queued timers, requests
\* no invalidation and publishes nothing; so repeating it changes nothing
\* either.
C7_NoOp ==
    /\ UNCHANGED <<documentsByFile, needsValidation, timers, burst, validateCount>>
    /\ effects' = << >>

C7_DeleteOfAbsentFileIsNoOp ==
    [][C7_NoOp \/ ~(\E uri \in URIs : ~documentsByFile[uri].has /\ CallFileWasDeleted(uri))]_vars

\* The project is ready with a handler registered, the last step emitted
\* something, and a delete of an unindexed file can be taken and is a no-op.
C7_Witness ==
    /\ isReadyField
    /\ ~needsValidation
    /\ onDiagnosticsField # NoHandler
    /\ effects # << >>
    /\ ENABLED (/\ \E uri \in URIs : ~documentsByFile[uri].has /\ CallFileWasDeleted(uri)
                /\ C7_NoOp)

\* ---------------------------------------------------------------- C8
\* C8 as stated: a revalidation request made before readiness sets the
\* pending-validation flag and queues no timer.
C8_SetsFlagBeforeReady ==
    [][(needsValidation' /\ timers' = timers) \/ ~(~isReadyField /\ InvalidatingCall)]_vars

\* C8 as amended: before readiness the pending-validation flag is false and
\* no timer is queued, so a revalidation request made before readiness
\* leaves the flag false and schedules nothing.
C8_NothingPendingBeforeReady == ~isReadyField => (~needsValidation /\ timers = 0)

\* invalidate() has been called before readiness.
C8_Witness == ~isReadyField /\ burst > 0 /\ ~needsValidation /\ timers = 0

\* ---------------------------------------------------------------- C9
\* C9: whenReady is fulfilled only when the project is ready, and is not
\* fulfilled when an init subtask has rejected.
C9_WhenReadyFulfilledOnlyWhenReady ==
    readyPromise = "fulfilled"
        => (isReadyField /\ \A i \in 1 .. NumSubtasks : subtasks[i] = "resolved")

\* ---------------------------------------------------------------- C10
\* C10: once an init subtask has rejected, isReady is false, no validate()
\* invocation has happened, and showError has been called exactly once as
\* soon as the constructor's catch callback has run (and not before, and
\* never again).
C10_InitFailureIsPermanent ==
    (\E i \in 1 .. NumSubtasks : subtasks[i] = "rejected")
        => /\ ~isReadyField
           /\ validateCount = 0
           /\ showErrorCount = IF readyPromise = "pending" THEN 0 ELSE 1

\* Initialization failed, the error was shown, every subtask has settled, and
\* documents were stored and invalidate() was called in that project.
C10_Witness ==
    /\ \E i \in 1 .. NumSubtasks : subtasks[i] = "rejected"
    /\ \A i \in 1 .. NumSubtasks : subtasks[i] # "pending"
    /\ showErrorCount = 1
    /\ burst = MaxBurst
    /\ Keys(documentsByFile) # {}

\* ---------------------------------------------------------------- C11
\* The last step was a validation pass: validate() is the first thing it did.
JustValidated == effects # << >> /\ effects[1].kind = "validate"

\* C11 as stated: whenever the index is mutated while the project is ready and
\* the hook completes normally, a validate() runs after the mutation.  A pass
\* that has just run and whose hook has mutated the index since it began must
\* then have another pass queued behind it.
C11_EveryMutationHasPassQueued ==
    (JustValidated /\ documentsByFile # effects[1].index) => (needsValidation /\ timers > 0)

\* C11 amended: whenever a step that is not a validation pass changes the
\* index while the project is ready, and the hook completes normally, a
\* revalidation is left pending; a pending
\* revalidation always leads to a pass that clears it, burst after burst; and
\* validate() observes the index as it is when the pass executes.
C11_ValidationFollowsEveryBurst ==
    /\ [][(isReadyField /\ documentsByFile' # documentsByFile
                /\ validateCount' = validateCount) => needsValidation']_vars
    /\ (isReadyField /\ needsValidation) ~> (JustValidated /\ ~needsValidation)
    /\ [][validateCount' # validateCount =>
            (effects'[1].kind = "validate" /\ effects'[1].index = documentsByFile)]_vars

\* A second pass has run over a non-empty index: the burst that followed the
\* first pass was validated too.
C11_Witness ==
    /\ JustValidated
    /\ validateCount = MaxValidations
    /\ effects[1].served > 0
    /\ Keys(effects[1].index) # {}
    /\ ~needsValidation

\* ---------------------------------------------------------------- C12
\* C12: in every reachable state at most one deferred validation turn is
\* outstanding, and no step begins more than one validate(): a pass runs to
\* its end inside one timer turn, and what the hook calls back into from
\* there begins no second validate().
C12_OneTurnOutstandingNoOverlap ==
    /\ [](timers <= 1)
    /\ [][validateCount' <= validateCount + 1]_vars

\* A turn is outstanding for a burst of several requests, after an earlier
\* pass has run.
C12_Witness == timers = 1 /\ burst = MaxBurst /\ validateCount > 0

\* ---------------------------------------------------------------- C13
\* The disks that hold something for files the index already has: what they
\* hold for the files a scan is meant to read is left to the scan action.
StaleDisks(index) ==
    { disk \in Disks : \A p \in ScanReads(index) : disk[p] = ReadFailure }

\* C13: from every reachable state, whatever the enumeration order and
\* whatever the disk holds for the files that are already keys of the index,
\* a scan leaves each of them as it is and records no change event for it
\* (fileDidChange is not invoked for it); only files without an entry are
\* read.
C13_ScanSkipsIndexedFiles ==
    \A allFiles \in Enumerations, disk \in StaleDisks(documentsByFile) :
        LET scanned == scanAllIncludedFiles(Cur, allFiles, disk)
        IN \A uri \in URIs :
              documentsByFile[uri].has =>
                 /\ scanned.documentsByFile[uri] = documentsByFile[uri]
                 /\ scanned.lastEvent[uri] = lastEvent[uri]

\* One file is indexed, another is not, the disk holds other documents for the
\* first and some for the second: in either enumeration order the scan stores
\* the second and keeps the first.
C13_Witness ==
    LET a == UriFile(<<"a", ".graphql">>)
        b == UriFile(<<"b", ".ts">>)
    IN /\ documentsByFile[a] = Entry(<<1>>)
       /\ ~documentsByFile[b].has
       /\ \A allFiles \in Enumerations :
            \E disk \in Disks :
               /\ disk[<<"a", ".graphql">>] = ReadSuccess(MaxDocs + 1)
               /\ disk[<<"b", ".ts">>] = ReadSuccess(2)
               /\ ENABLED CallScanAllIncludedFiles(allFiles, disk)
               /\ scanAllIncludedFiles(Cur, allFiles, disk).documentsByFile
                     = [documentsByFile EXCEPT ![b] = Entry(<<1>>)]

\* ---------------------------------------------------------------- C14
\* The positions in the effects of one step at which something of the given
\* kind was emitted for the given file.
Emitted(effs, kind, uri) ==
    { i \in DOMAIN effs : effs[i].kind = kind /\ effs[i].uri = uri }

ClearAllStep ==
    \E keys \in InsertionOrders(documentsByFile) : CallClearAllDiagnostics(keys)

\* What one step publishes: for each file one cleared event when the step
\* takes the file out of the index and a handler is registered, none
\* otherwise, and every cleared event before every setTimeout of the step.
OneClearedEventPerRemoval ==
    \A uri \in URIs :
        /\ Cardinality(Emitted(effects', "publish", uri)) =
              IF /\ onDiagnosticsField # NoHandler
                 /\ documentsByFile[uri].has
                 /\ ~documentsByFile'[uri].has
              THEN 1 ELSE 0
        /\ \A i \in Emitted(effects', "publish", uri) :
              \A j \in Emitted(effects', "setTimeout", NoUri) : i < j

\* C14: with a handler registered, every step other than clearAllDiagnostics
\* publishes exactly one cleared event for each file it takes out of the
\* index and none for any other file, and publishes it before it requests
\* the revalidation.
C14_OneClearedEventPerRemoval == [][OneClearedEventPerRemoval \/ ClearAllStep]_vars

\* A change that yields no documents has just removed an indexed file of a
\* ready, idle project: one cleared event, then the timer.
C14_Witness ==
    \E uri \in URIs :
        /\ onDiagnosticsField # NoHandler
        /\ ~documentsByFile[uri].has
        /\ lastEvent[uri] = None
        /\ effects = << PublishEff(onDiagnosticsField, uri), Eff("setTimeout") >>

\* ---------------------------------------------------------------- C15
\* What fileDidChange does with the file: nothing when its extension has no
\* language id or when the read fails.
Dropped(uri, read) == languageIdOf(extname(fsPath(uri))) = Undefined \/ ~read.ok

\* C15: from every reachable state, fileDidChange on a file with an
\* unsupported extension, or on a supported file whose read fails, returns
\* normally and leaves the index (the file's own entry included), the pending
\* flag and the queued timers as they are, records no change event and emits
\* nothing.
C15_UnreadableFileIsDropped ==
    \A uri \in URIs, read \in ReadResults :
        Dropped(uri, read) =>
            LET after == fileDidChange(Cur, uri, read)
            IN /\ ~after.threw
               /\ after.out = << >>
               /\ after.documentsByFile = documentsByFile
               /\ after.lastEvent = lastEvent
               /\ after.needsValidation = needsValidation
               /\ after.timers = timers
               /\ after.burst = burst

\* A ready, idle project with a handler holds an entry for a supported file,
\* and a fileDidChange whose read of that file fails can be delivered.
C15_Witness ==
    LET a == UriFile(<<"a", ".graphql">>)
    IN /\ isReadyField /\ ~needsValidation /\ onDiagnosticsField # NoHandler
       /\ documentsByFile[a].has
       /\ ENABLED CallFileDidChange(a, ReadFailure)
       /\ ENABLED CallFileDidChange(UriFile(<<"c", ".txt">>), ReadSuccess(1))

\* ---------------------------------------------------------------- C16
\* C16: from every reachable state and in whatever order the keys come,
\* clearAllDiagnostics emits one empty diagnostic set for each file that is a
\* key of the index and nothing else, each to the registered handler (with no
\* handler registered they are dropped and nothing is delivered), and leaves
\* the index, the pending flag, readiness and the queued timers as they are.
C16_ClearAllPublishesOncePerKey ==
    \A keys \in KeyOrders(documentsByFile) :
        LET after == clearAllDiagnostics(Cur, keys)
            delivered == IF onDiagnosticsField = NoHandler THEN {} ELSE Keys(documentsByFile)
        IN /\ \A uri \in URIs :
                Cardinality(Emitted(after.out, "publish", uri)) =
                    IF uri \in delivered THEN 1 ELSE 0
           /\ Len(after.out) = Cardinality(delivered)
           /\ \A i \in DOMAIN after.out : after.out[i].handler = onDiagnosticsField
           /\ after.documentsByFile = documentsByFile
           /\ after.needsValidation = needsValidation
           /\ after.isReadyField = isReadyField
           /\ after.timers = timers
           /\ after.validateCount = validateCount

\* clearAllDiagnostics has just run on a ready, idle project whose index holds
\* two of the three files: two events, one for each key.
C16_Witness ==
    /\ isReadyField /\ ~needsValidation /\ timers = 0
    /\ Cardinality(Keys(documentsByFile)) = 2
    /\ Len(effects) = 2
    /\ \A uri \in Keys(documentsByFile) :
          Cardinality(Emitted(effects, "publish", uri)) = 1

\* ---------------------------------------------------------------- C17
\* C17: every diagnostics event of a step goes to the handler registered when
\* the step is taken, so none is emitted while there is none; onDiagnostics(h)
\* makes h that handler and delivers nothing, so a replaced handler receives
\* no further event and a handler registered later receives none of the
\* events dropped before; and fileWasDeleted on an indexed file with no
\* handler registered still removes the entry and, when the project is ready,
\* leaves a revalidation pending.
C17_EventsGoToLastRegisteredHandler ==
    [][/\ \A i \in DOMAIN effects' :
             effects'[i].kind = "publish" =>
                 (effects'[i].handler = onDiagnosticsField
                     /\ onDiagnosticsField # NoHandler)
       /\ \A handler \in Handlers :
             (onDiagnosticsField' = handler /\ effects' = << >>)
                 \/ ~CallOnDiagnostics(handler)
       /\ \A uri \in URIs :
             (~documentsByFile'[uri].has /\ (needsValidation' \/ ~isReadyField))
                 \/ ~(/\ onDiagnosticsField = NoHandler
                      /\ documentsByFile[uri].has
                      /\ CallFileWasDeleted(uri))]_vars

\* An event has just been delivered to h2 after a validation pass, and h1 can
\* be registered in its place from here.
C17_Witness ==
    /\ onDiagnosticsField = "h2"
    /\ \E i \in DOMAIN effects : effects[i].kind = "publish" /\ effects[i].handler = "h2"
    /\ validateCount > 0
    /\ ENABLED CallOnDiagnostics("h1")

\* ---------------------------------------------------------------- C18
\* The stored document of lowest index among those that contain the position.
FirstContaining(docs, position) ==
    LET hits == { i \in DOMAIN docs : containsPosition(docs[i], position) }
    IN IF hits = {} THEN NoDocument
       ELSE docs[CHOOSE i \in hits : \A j \in hits : i <= j]

\* C18: for every file and position, documentAt gives the first document in
\* stored order of the file's entry whose range contains the position, and no
\* document when none contains it or the file has no entry.
C18_DocumentAtFirstMatch ==
    \A uri \in URIs, position \in Positions :
        documentAt(Cur, uri, position) =
            IF uri \in Keys(documentsByFile)
            THEN FirstContaining(documentsByFile[uri].docs, position)
            ELSE NoDocument

\* One file holds two documents that share position 2 and another file has
\* no entry: the first of the two is found at the shared position, the second
\* past it, and nothing before them or in the other file.
C18_Witness ==
    LET a == UriFile(<<"a", ".graphql">>)
        b == UriFile(<<"b", ".ts">>)
    IN /\ documentsByFile[a] = Entry(<<1, 2>>)
       /\ ~documentsByFile[b].has
       /\ documentAt(Cur, a, 2) = 1
       /\ documentAt(Cur, a, 3) = 2
       /\ documentAt(Cur, a, 0) = NoDocument
       /\ documentAt(Cur, b, 2) = NoDocument

\* ---------------------------------------------------------------- C19
\* C19: in every reachable state a queued timer implies the pending flag and
\* the pending flag implies readiness; and readiness, once set, stays set.
C19_TimerImpliesFlagImpliesReady ==
    /\ []((timers > 0 => needsValidation) /\ (needsValidation => isReadyField))
    /\ [][isReadyField => isReadyField']_vars

\* A timer is queued on a ready project after an earlier pass has run.
C19_Witness == timers > 0 /\ needsValidation /\ isReadyField /\ validateCount > 0

\* ---------------------------------------------------------------- C20
\* The hook of the pass that is run calls back into the project.
ReentrantHooks == { hook \in HookBehaviours : hook.kind \in {"change", "delete"} }

\* C20: when the hook of a validation pass calls back into the project
\* (storing documents, or removing a file) and returns, the pass queues no
\* timer and ends with the pending flag false and no timer outstanding.
C20_ReentrantInvalidationIsLost ==
    [][(/\ ~needsValidation'
        /\ timers' = 0
        /\ Emitted(effects', "setTimeout", NoUri) = {})
          \/ ~(/\ validateCount' # validateCount
               /\ \E hook \in ReentrantHooks : TimerTurn(hook))]_vars

\* A pass has just run whose hook changed the index it was validating: the
\* index differs from the one the pass observed, and nothing is pending.
C20_Witness ==
    /\ JustValidated
    /\ documentsByFile # effects[1].index
    /\ ~needsValidation
    /\ timers = 0

====
